---- MODULE Spec2Model ----
(***************************************************************************)
(* Model of the equity calculator (src/src/components/EquityCalculator.tsx) *)
(*                                                                         *)
(* Numbers.  Every number the component keeps in its state is the result   *)
(* of parsing a short decimal text (a form input, or the output of         *)
(* toFixed(2)), so a stored number is kept as the integer count of         *)
(* thousandths of that decimal ("milli": 45000 is 45, 33333 is 33.333) and *)
(* stands for the IEEE-754 double nearest to it.  The arithmetic of        *)
(* calculateEquity and calculateDilutionImpact is carried out on doubles   *)
(* (sign, odd integer mantissa, binary exponent) with round-to-nearest-    *)
(* even after every operation, as the JavaScript engine does.              *)
(***************************************************************************)
EXTENDS Integers, Sequences, FiniteSets, TLC

(***************************************************************************)
(* Natural numbers of arbitrary size: little-endian sequences of base-2^15 *)
(* digits with no leading zero digit (<<>> is 0).  They carry the 53-bit   *)
(* mantissas and the 106-bit products of double arithmetic.                *)
(***************************************************************************)
BASE == 2^15

RECURSIVE BigNorm(_)
BigNorm(x) ==
  IF x = <<>> THEN x
  ELSE IF x[Len(x)] = 0 THEN BigNorm(SubSeq(x, 1, Len(x) - 1))
  ELSE x

RECURSIVE BigFromInt(_)
BigFromInt(n) ==
  IF n = 0 THEN <<>> ELSE <<n % BASE>> \o BigFromInt(n \div BASE)

RECURSIVE BigToInt(_)
BigToInt(x) ==
  IF x = <<>> THEN 0 ELSE Head(x) + BASE * BigToInt(Tail(x))

RECURSIVE BigAddC(_, _, _)
BigAddC(x, y, c) ==
  IF x = <<>> /\ y = <<>> THEN (IF c = 0 THEN <<>> ELSE <<c>>)
  ELSE LET a == IF x = <<>> THEN 0 ELSE Head(x)
           b == IF y = <<>> THEN 0 ELSE Head(y)
           s == a + b + c
       IN  <<s % BASE>> \o BigAddC(IF x = <<>> THEN x ELSE Tail(x),
                                   IF y = <<>> THEN y ELSE Tail(y),
                                   s \div BASE)

BigAdd(x, y) == BigAddC(x, y, 0)

\* x - y for x >= y, before normalisation
RECURSIVE BigSubB(_, _, _)
BigSubB(x, y, b) ==
  IF x = <<>> THEN <<>>
  ELSE LET d == Head(x) - (IF y = <<>> THEN 0 ELSE Head(y)) - b
       IN  <<IF d < 0 THEN d + BASE ELSE d>>
             \o BigSubB(Tail(x), IF y = <<>> THEN y ELSE Tail(y),
                        IF d < 0 THEN 1 ELSE 0)

BigSub(x, y) == BigNorm(BigSubB(x, y, 0))

\* -1, 0, 1 as x < y, x = y, x > y
RECURSIVE BigCmpFrom(_, _, _)
BigCmpFrom(x, y, i) ==
  IF i = 0 THEN 0
  ELSE IF x[i] < y[i] THEN -1
  ELSE IF x[i] > y[i] THEN 1
  ELSE BigCmpFrom(x, y, i - 1)

BigCmp(x, y) ==
  IF Len(x) < Len(y) THEN -1
  ELSE IF Len(x) > Len(y) THEN 1
  ELSE BigCmpFrom(x, y, Len(x))

\* x * d + c for a digit-sized d and c
RECURSIVE BigMulSmallC(_, _, _)
BigMulSmallC(x, d, c) ==
  IF x = <<>> THEN (IF c = 0 THEN <<>> ELSE <<c>>)
  ELSE LET p == Head(x) * d + c
       IN  <<p % BASE>> \o BigMulSmallC(Tail(x), d, p \div BASE)

BigMulSmall(x, d) == IF d = 0 THEN <<>> ELSE BigMulSmallC(x, d, 0)

\* x * BASE
BigShiftDigit(x) == IF x = <<>> THEN x ELSE <<0>> \o x

RECURSIVE BigMul(_, _)
BigMul(x, y) ==
  IF x = <<>> \/ y = <<>> THEN <<>>
  ELSE BigAdd(BigMulSmall(x, Head(y)), BigShiftDigit(BigMul(x, Tail(y))))

\* quotient and remainder of x by a digit-sized d > 0: the digits x[1..i]
\* are still to be divided, r is the remainder and q the quotient digits of
\* the digits above them
RECURSIVE BigDivSmallFrom(_, _, _, _, _)
BigDivSmallFrom(x, d, i, r, q) ==
  IF i = 0 THEN [q |-> BigNorm(q), r |-> r]
  ELSE BigDivSmallFrom(x, d, i - 1, (r * BASE + x[i]) % d,
                       <<(r * BASE + x[i]) \div d>> \o q)

BigDivSmall(x, d) == BigDivSmallFrom(x, d, Len(x), 0, <<>>)

RECURSIVE IntBitLen(_)
IntBitLen(n) == IF n = 0 THEN 0 ELSE 1 + IntBitLen(n \div 2)

DigitBits == IntBitLen(BASE) - 1

BigBitLen(x) ==
  IF x = <<>> THEN 0 ELSE (Len(x) - 1) * DigitBits + IntBitLen(x[Len(x)])

Zeros(k) == [i \in 1..k |-> 0]

\* x * 2^k
BigShl(x, k) ==
  IF x = <<>> THEN x
  ELSE Zeros(k \div DigitBits) \o BigMulSmall(x, 2^(k % DigitBits))

\* floor(x / 2^k)
BigShr(x, k) ==
  LET drop == k \div DigitBits
  IN  IF drop >= Len(x) THEN <<>>
      ELSE BigDivSmall(SubSeq(x, drop + 1, Len(x)), 2^(k % DigitBits)).q

BigIsOdd(x) == x # <<>> /\ Head(x) % 2 = 1

\* the number of trailing zero bits of x > 0
RECURSIVE IntTrailingZeros(_)
IntTrailingZeros(n) == IF n % 2 = 1 THEN 0 ELSE 1 + IntTrailingZeros(n \div 2)

RECURSIVE BigTrailingZeros(_)
BigTrailingZeros(x) ==
  IF Head(x) = 0 THEN DigitBits + BigTrailingZeros(Tail(x))
  ELSE IntTrailingZeros(Head(x))

\* the largest digit q with q * d <= rem, searched downwards from q
RECURSIVE BigQuotDigit(_, _, _)
BigQuotDigit(rem, d, q) ==
  IF BigCmp(BigMulSmall(d, q), rem) > 0 THEN BigQuotDigit(rem, d, q - 1) ELSE q

\* schoolbook long division of the digits n[1..i] (rem: the remainder of the
\* digits above them) by d, whose top digit is at least BASE/2
\* an upper estimate of the digit floor(cur / d), from the top digits
BigEstDigit(cur, d) ==
  IF Len(cur) > Len(d)
    THEN (IF (cur[Len(d) + 1] * BASE + cur[Len(d)]) \div d[Len(d)] >= BASE
            THEN BASE - 1
            ELSE (cur[Len(d) + 1] * BASE + cur[Len(d)]) \div d[Len(d)])
  ELSE IF Len(cur) = Len(d) THEN cur[Len(d)] \div d[Len(d)]
  ELSE 0

RECURSIVE BigLongDivFrom(_, _, _, _, _)
BigLongDivFrom(n, d, i, rem, q) ==
  IF i = 0 THEN [q |-> BigNorm(q), r |-> rem]
  ELSE LET Digit(cur, qd) ==
             BigLongDivFrom(n, d, i - 1, BigSub(cur, BigMulSmall(d, qd)),
                            <<qd>> \o q)
           Cur(cur) == Digit(cur, BigQuotDigit(cur, d, BigEstDigit(cur, d)))
       IN  Cur(BigNorm(<<n[i]>> \o rem))

\* quotient and remainder of x by d > 0
BigDiv(x, d) ==
  LET Unshift(res, sh) == [q |-> res.q, r |-> BigShr(res.r, sh)]
      Long(xs, ds, sh) ==
        Unshift(BigLongDivFrom(xs, ds, Len(xs), <<>>, <<>>), sh)
      Shift(sh) == Long(BigShl(x, sh), BigShl(d, sh), sh)
  IN  Shift(DigitBits - IntBitLen(d[Len(d)]))

(***************************************************************************)
(* IEEE-754 binary64 values.  A finite value is (-1)^s * m * 2^e with m    *)
(* zero or an odd natural number below 2^53 (trailing zero bits of the     *)
(* significand are moved into the exponent); zero is kept unsigned.        *)
(* Exponent range limits (overflow, subnormals) are not reached by         *)
(* percentages and are not modelled.                                       *)
(***************************************************************************)
MantissaBits == 53

DZero == [k |-> "fin", s |-> 0, m |-> <<>>, e |-> 0]

DNaN == [k |-> "nan", s |-> 0, m |-> <<>>, e |-> 0]

DInf(s) == [k |-> "inf", s |-> s, m |-> <<>>, e |-> 0]

DIsZero(x) == x.k = "fin" /\ x.m = <<>>

\* the value (-1)^s * m * 2^e, with the trailing zero bits of m moved into the
\* exponent
DFin(s, m, e) ==
  IF m = <<>> THEN DZero
  ELSE LET Strip(tz) == [k |-> "fin", s |-> s, m |-> BigShr(m, tz), e |-> e + tz]
       IN  Strip(BigTrailingZeros(m))

\* m without its lowest drop bits, rounded to nearest, ties to even: of the
\* bits that go, the highest is the rounding bit (the remainder of halving
\* m's bits from it upwards), and the value is a tie when no bit below it is
\* set and no sticky fraction follows
DRoundedMantissa(m, drop, sticky) ==
  LET Nearest(half, tie) ==
        IF half.r = 1 /\ (~tie \/ BigIsOdd(half.q))
          THEN BigAdd(half.q, <<1>>) ELSE half.q
  IN  Nearest(BigDivSmall(BigShr(m, drop - 1), 2),
              ~sticky /\ BigTrailingZeros(m) >= drop - 1)

\* round-to-nearest, ties-to-even, of (m + sticky fraction) * 2^e to 53 bits
DRound(s, m, e, sticky) ==
  LET Bits(len) ==
        DFin(s,
             IF len <= MantissaBits THEN m
             ELSE DRoundedMantissa(m, len - MantissaBits, sticky),
             IF len <= MantissaBits THEN e ELSE e + (len - MantissaBits))
  IN  Bits(BigBitLen(m))

DFromInt(n) == DFin(IF n < 0 THEN 1 ELSE 0, BigFromInt(IF n < 0 THEN -n ELSE n), 0)

DNeg(x) == IF x.k = "nan" \/ DIsZero(x) THEN x ELSE [x EXCEPT !.s = 1 - x.s]

DMul(x, y) ==
  LET s == (x.s + y.s) % 2
  IN  IF x.k = "nan" \/ y.k = "nan" THEN DNaN
      ELSE IF x.k = "inf" \/ y.k = "inf"
        THEN (IF DIsZero(x) \/ DIsZero(y) THEN DNaN ELSE DInf(s))
      ELSE IF DIsZero(x) \/ DIsZero(y) THEN DZero
      ELSE DRound(s, BigMul(x.m, y.m), x.e + y.e, FALSE)

DDiv(x, y) ==
  LET s == (x.s + y.s) % 2
  IN  IF x.k = "nan" \/ y.k = "nan" THEN DNaN
      ELSE IF x.k = "inf" THEN (IF y.k = "inf" THEN DNaN ELSE DInf(s))
      ELSE IF y.k = "inf" THEN DZero
      ELSE IF DIsZero(y) THEN (IF DIsZero(x) THEN DNaN ELSE DInf(s))
      ELSE IF DIsZero(x) THEN DZero
      ELSE LET Quotient(res, k) ==
                 DRound(s, res.q, x.e - y.e - k, res.r # <<>>)
               Scaled(k) == Quotient(BigDiv(BigShl(x.m, k), y.m), k)
               Need(need) == Scaled(IF need < 0 THEN 0 ELSE need)
           IN  Need(MantissaBits + 2 + BigBitLen(y.m) - BigBitLen(x.m))

DAdd(x, y) ==
  IF x.k = "nan" \/ y.k = "nan" THEN DNaN
  ELSE IF x.k = "inf" THEN (IF y.k = "inf" /\ y.s # x.s THEN DNaN ELSE x)
  ELSE IF y.k = "inf" THEN y
  ELSE IF DIsZero(x) THEN y
  ELSE IF DIsZero(y) THEN x
  ELSE LET Signed(ax, ay, e, c) ==
             DRound(IF x.s = y.s \/ c >= 0 THEN x.s ELSE y.s,
                    IF x.s = y.s THEN BigAdd(ax, ay)
                    ELSE IF c >= 0 THEN BigSub(ax, ay)
                    ELSE BigSub(ay, ax),
                    e, FALSE)
           Aligned(ax, ay, e) == Signed(ax, ay, e, BigCmp(ax, ay))
           Align(e) == Aligned(BigShl(x.m, x.e - e), BigShl(y.m, y.e - e), e)
       IN  Align(IF x.e < y.e THEN x.e ELSE y.e)

DSub(x, y) == DAdd(x, DNeg(y))

(***************************************************************************)
(* Stored numbers and texts.  Fin(v) is the double nearest to v/1000 (v an *)
(* integer count of thousandths), and NegZero is -0, which Object.is tells *)
(* from 0; a chart value can also be NaN or an infinity (v = 1 or -1 gives *)
(* its sign).  A text is what a form input holds (e.target.value: empty,  *)
(* or a decimal with at most three decimals) or what toFixed(2) returns.   *)
(***************************************************************************)
Milli == 1000

\* the number of a sign and a magnitude: -0 is the one with neg and v = 0
SignedFin(neg, magnitude) ==
  [k |-> "fin", v |-> IF neg THEN -magnitude ELSE magnitude, neg |-> neg]

Fin(v) == SignedFin(v < 0, IF v < 0 THEN -v ELSE v)

NegZero == SignedFin(TRUE, 0)

NaN == [k |-> "nan", v |-> 0, neg |-> FALSE]

Infinity(sign) == [k |-> "inf", v |-> sign, neg |-> sign < 0]

Text(v) == [k |-> "fin", neg |-> v < 0, milli |-> IF v < 0 THEN -v ELSE v]

\* the text "-0"
NegZeroText == [k |-> "fin", neg |-> TRUE, milli |-> 0]

EmptyText == [k |-> "empty", neg |-> FALSE, milli |-> 0]

\* the double a stored number stands for: the decimal v/1000 correctly rounded
\* (a whole number is a double as it stands)
DOfMilli(v) ==
  IF v % Milli = 0 THEN DFromInt(v \div Milli)
  ELSE DDiv(DFromInt(v), DFromInt(Milli))

DOfNum(n) ==
  IF n.k = "nan" THEN DNaN
  ELSE IF n.k = "inf" THEN DInf(IF n.v < 0 THEN 1 ELSE 0)
  ELSE DOfMilli(n.v)

\* Number.prototype.toFixed(2): the text of n/100, n the integer for which
\* n/100 - |x| is closest to zero, the larger one on a tie (decided on the
\* exact value of the double x)
ToFixed2(x) ==
  IF x.k = "nan" THEN [k |-> "nan", neg |-> FALSE, milli |-> 0]
  ELSE IF x.k = "inf" THEN [k |-> "inf", neg |-> x.s = 1, milli |-> 0]
  ELSE LET t == BigMulSmall(x.m, 100)
           n == IF x.e >= 0 THEN BigShl(t, x.e)
                ELSE BigShr(BigAdd(t, BigShl(<<1>>, -x.e - 1)), -x.e)
       IN  [k |-> "fin", neg |-> x.s = 1, milli |-> BigToInt(n) * (Milli \div 100)]

\* parseFloat(text): NaN for the empty text and for "NaN"
ParseFloat(t) ==
  IF t.k \in {"nan", "empty"} THEN NaN
  ELSE IF t.k = "inf" THEN Infinity(IF t.neg THEN -1 ELSE 1)
  ELSE SignedFin(t.neg, t.milli)

\* parseInt(text): the integer part of the decimal, NaN for the empty text
ParseInt(t) ==
  IF t.k # "fin" THEN NaN
  ELSE SignedFin(t.neg, (t.milli \div Milli) * Milli)

\* Number(text) of a number input's text: 0 for the empty text
NumberOf(t) ==
  IF t.k = "empty" THEN Fin(0) ELSE ParseFloat(t)

\* n || fallback: NaN and 0 are falsy
OrElse(n, fallback) ==
  IF n.k = "nan" \/ (n.k = "fin" /\ n.v = 0) THEN fallback ELSE n

(***************************************************************************)
(* calculateEquity and calculateDilutionImpact on values.  A member is a   *)
(* record [role, name, points, multiplier, notes]: points holds the four   *)
(* integers parseInt produced, multiplier is in thousandths.               *)
(***************************************************************************)
\* Object.values(member.points).reduce((a, b) => a + b, 0) * member.multiplier
\* (the four points are integers, so their sum is exact)
MemberPoints(member) ==
  DMul(DFromInt(member.points.commitment + member.points.expertise
                + member.points.risk + member.points.responsibilities),
       DOfMilli(member.multiplier))

\* reduce((sum, x) => sum + x, 0) over the doubles xs[i..]
RECURSIVE SumFrom(_, _, _)
SumFrom(xs, i, sum) ==
  IF i > Len(xs) THEN sum ELSE SumFrom(xs, i + 1, DAdd(sum, xs[i]))

\* a remainder that leaves the option pool out: the fault C3 is tested against
RemainingEquityWhole(pool) == DFromInt(100)

\* 100 - optionPool
RemainingEquity(pool) == DSub(DFromInt(100), DOfNum(pool))

\* parseFloat(((memberPoints / totalPoints) * remainingEquity).toFixed(2))
MemberEquity(memberPoints, totalPoints, remainingEquity) ==
  ParseFloat(ToFixed2(DMul(DDiv(memberPoints, totalPoints), remainingEquity)))

\* members.map(member => ({name: member.role, value: equity})), for the
\* member values ms (memberPoints is computed once per member here, twice in
\* the source)
MemberEntries(ms, pool) ==
  LET Entries(memberPoints, totalPoints, remainingEquity) ==
        [i \in 1..Len(ms) |->
           [name  |-> ms[i].role,
            value |-> MemberEquity(memberPoints[i], totalPoints,
                                   remainingEquity)]]
      Totals(memberPoints) ==
        Entries(memberPoints, SumFrom(memberPoints, 1, DZero),
                RemainingEquity(pool))
  IN  Totals([i \in 1..Len(ms) |-> MemberPoints(ms[i])])

\* { name: 'Option Pool', value: optionPool }
PoolEntry(pool) == [name |-> "Option Pool", value |-> pool]

\* a chart with the pool entry unshifted instead of pushed: the fault C6 is
\* tested against
NewChartDataPoolFirst(ms, pool) == <<PoolEntry(pool)>> \o MemberEntries(ms, pool)

\* calculateEquity's newChartData: the member entries, then the pool's
NewChartData(ms, pool) == MemberEntries(ms, pool) \o <<PoolEntry(pool)>>

\* a factor that takes the funding off instead of adding the new shares,
\* (100 - futureFunding) / 100: the fault C8 is tested against
DilutionFactorSubtracting(funding) ==
  DDiv(DSub(DFromInt(100), DOfNum(funding)), DFromInt(100))

\* 100 / (100 + futureFunding)
DilutionFactor(funding) ==
  DDiv(DFromInt(100), DAdd(DFromInt(100), DOfNum(funding)))

\* calculateDilutionImpact's dilutedChartData
DilutedChartData(cd, funding) ==
  LET Items(dilutionFactor) ==
        [i \in 1..Len(cd) |->
           [cd[i] EXCEPT !.value =
              ParseFloat(ToFixed2(DMul(DOfNum(cd[i].value), dilutionFactor)))]]
  IN  Items(DilutionFactor(funding))

(***************************************************************************)
(* The component's state.  JavaScript objects that are shared and mutated  *)
(* in place are kept in heaps: a member list is a sequence of references   *)
(* into heap, a category list a sequence of references into catHeap.  The  *)
(* handlers write newMembers[index].field = v on the object the previous   *)
(* array (and any saved scenario's array) also holds, and saveScenario     *)
(* copies arrays, not objects ([...members]).                              *)
(***************************************************************************)
VARIABLES
  members,                \* useState members: references into heap
  membersArr,             \* which array object members is: 0, an array no
                          \* scenario holds; i, savedScenarios[i].members
  heap,                   \* the Member objects, by reference
  optionPool,             \* a number
  chartData,              \* sequence of [name, value]
  savedScenarios,
  scenarioName,
  vestingSchedule,        \* [years, cliff], numbers
  customPointsCategories, \* references into catHeap
  catHeap,                \* the CustomPointsCategory objects, by reference
  futureFunding,          \* a number
  startup,                \* startupName, startupDescription, yearOfFunding,
                          \* fundingStage, logoUrl
  savedAt,                \* history: savedAt[i] is the value, object by object,
                          \* of everything savedScenarios[i] held when saved
  diluted,                \* history: how many times calculateDilutionImpact
                          \* has been applied to chartData since
                          \* calculateEquity produced it
  lastOp,                 \* history: the kind of handler that ran last
  steps                   \* history: the number of handlers run

working == <<members, membersArr, heap, optionPool, chartData>>

form == <<scenarioName, vestingSchedule, customPointsCategories, catHeap,
          futureFunding, startup>>

vars == <<working, savedScenarios, form, savedAt, diluted, lastOp, steps>>

\* bounds of the exploration
MaxMembers == 3

MaxScenarios == 3

MaxCategories == 1

MaxSteps == 3

Refs == 1..(MaxMembers * (MaxScenarios + 1))

CatRefs == 1..(MaxCategories * (MaxScenarios + 1))

\* the texts typed into the form
RoleTexts == {"COO"}

NameTexts == {"Sam"}

NotesTexts == {"advisor"}

PointTexts == {EmptyText}

MultiplierTexts == {Text(1500)}

PoolTexts == {Text(20 * Milli)}

FundingTexts == {Text(25 * Milli)}

VestingTexts == {Text(3 * Milli)}

ScenarioNames == {"Plan B"}

StartupTexts == {"Acme"}

CategoryNames == {"Sales"}

CategoryPointTexts == {Text(5 * Milli)}

\* `Team Member ${members.length + 1}`
TeamMemberRole(n) ==
  <<"Team Member 1", "Team Member 2", "Team Member 3", "Team Member 4",
    "Team Member 5", "Team Member 6">>[n]

\* the objects a list of references denotes in heap h
DerefIn(h, refs) == [i \in 1..Len(refs) |-> h[refs[i]]]

Range(f) == {f[i] : i \in DOMAIN f}

\* a heap without the objects nothing refers to any more
Collect(h, live) == [r \in (DOMAIN h) \cap live |-> h[r]]

MemberRefs(ms, scenarios) ==
  Range(ms) \cup UNION {Range(scenarios[i].members) : i \in DOMAIN scenarios}

CategoryRefs(cats, scenarios) ==
  Range(cats)
    \cup UNION {Range(scenarios[i].customPointsCategories) : i \in DOMAIN scenarios}

\* a reference not in use (new objects get the smallest one)
FreshRef(h, all) == CHOOSE r \in all \ DOMAIN h : \A o \in all \ DOMAIN h : r <= o

\* a filter that takes an element off whatever the index, the first one for
\* an index before the sequence and the last one for an index after it: the
\* fault C14 is tested against
RemoveAtShifting(seq, index) ==
  [i \in 1..(Len(seq) - 1) |-> IF i < index THEN seq[i] ELSE seq[i + 1]]

\* filter((_, i) => i !== index): the elements whose position is not index, in
\* their order (positions count from 1 here, from 0 in the source)
RemoveAt(seq, index) ==
  LET kept == {i \in 1..Len(seq) : i # index}
  IN  [j \in 1..Cardinality(kept) |->
         seq[IF index < 1 \/ j < index THEN j ELSE j + 1]]

\* what a scenario holds, object by object
ValueOf(scenario, h, ch) ==
  [name                   |-> scenario.name,
   members                |-> DerefIn(h, scenario.members),
   optionPool             |-> scenario.optionPool,
   vestingSchedule        |-> scenario.vestingSchedule,
   customPointsCategories |-> DerefIn(ch, scenario.customPointsCategories),
   futureFunding          |-> scenario.futureFunding,
   chartData              |-> scenario.chartData]

InitialMembers ==
  <<[role |-> "CEO", name |-> "Akram Hidri",
     points |-> [commitment |-> 25, expertise |-> 20, risk |-> 10,
                 responsibilities |-> 8],
     multiplier |-> Milli, notes |-> ""],
    [role |-> "CTO", name |-> "Iadh Hamdi",
     points |-> [commitment |-> 25, expertise |-> 20, risk |-> 10,
                 responsibilities |-> 8],
     multiplier |-> Milli, notes |-> ""]>>

\* kinds of handlers: "member" (an edit of the member list), "pool", "form"
\* (any other input), "dilute", "save", "load", "delete"
NoOp == [kind |-> "mount", index |-> 0, overDiluted |-> FALSE]

\* the state after the first render and its effects: the useState initial
\* values, and chartData as the mount effect's calculateEquity left it
Init ==
  /\ members = <<1, 2>>
  /\ membersArr = 0
  /\ heap = InitialMembers
  /\ optionPool = Fin(10 * Milli)
  /\ chartData = NewChartData(InitialMembers, Fin(10 * Milli))
  /\ savedScenarios = <<>>
  /\ scenarioName = "Default Scenario"
  /\ vestingSchedule = [years |-> Fin(4 * Milli), cliff |-> Fin(1 * Milli)]
  /\ customPointsCategories = <<>>
  /\ catHeap = <<>>
  /\ futureFunding = Fin(0)
  /\ startup = [startupName |-> "", startupDescription |-> "",
                yearOfFunding |-> "", fundingStage |-> "", logoUrl |-> ""]
  /\ savedAt = <<>>
  /\ diluted = 0
  /\ lastOp = NoOp
  /\ steps = 0

\* one more handler has run: its kind, for loadScenario and Delete the
\* scenario's index, and for an edit of the members or the pool whether the chart it found was
\* a dilution
Step(kind, index) ==
  /\ steps < MaxSteps
  /\ steps' = steps + 1
  /\ lastOp' = [kind        |-> kind,
                index       |-> IF kind \in {"load", "delete"} THEN index ELSE 0,
                overDiluted |-> kind \in {"member", "pool"} /\ diluted > 0]

(***************************************************************************)
(* Rendering.  calculateEquity is re-created when members (compared by     *)
(* identity) or optionPool changed, and the effect that depends on it      *)
(* (lines 108-110) then runs it, replacing whatever chartData the handler  *)
(* had set.  Every action below is a handler together with the render and  *)
(* the effect that follow it.                                              *)
(***************************************************************************)
\* an effect that depends on optionPool alone and so misses setMembers: the
\* fault C10 is tested against
RenderOnPoolChange(newArray, h, ms, pool, cd, cdDiluted) ==
  /\ chartData' = IF pool # optionPool
                    THEN NewChartData(DerefIn(h, ms), pool)
                    ELSE cd
  /\ diluted' = IF pool # optionPool THEN 0 ELSE cdDiluted

Render(newArray, h, ms, pool, cd, cdDiluted) ==
  /\ chartData' = IF newArray \/ pool # optionPool
                    THEN NewChartData(DerefIn(h, ms), pool)
                    ELSE cd
  /\ diluted' = IF newArray \/ pool # optionPool THEN 0 ELSE cdDiluted

\* const newMembers = [...members]; newMembers[index].<field> = <value>;
\* setMembers(newMembers): the object is changed in place, the array is new
MutateMember(index, object) ==
  /\ Step("member", index)
  /\ heap' = [heap EXCEPT ![members[index]] = object]
  /\ members' = members
  /\ membersArr' = 0
  /\ optionPool' = optionPool
  /\ Render(TRUE, heap', members, optionPool, chartData, diluted)
  /\ UNCHANGED <<savedScenarios, form, savedAt>>

SetRole(index, text) ==
  MutateMember(index, [heap[members[index]] EXCEPT !.role = text])

SetName(index, text) ==
  MutateMember(index, [heap[members[index]] EXCEPT !.name = text])

SetCommitment(index, text) ==
  MutateMember(index,
               [heap[members[index]] EXCEPT
                  !.points.commitment = OrElse(ParseInt(text), Fin(0)).v \div Milli])

SetExpertise(index, text) ==
  MutateMember(index,
               [heap[members[index]] EXCEPT
                  !.points.expertise = OrElse(ParseInt(text), Fin(0)).v \div Milli])

SetRisk(index, text) ==
  MutateMember(index,
               [heap[members[index]] EXCEPT
                  !.points.risk = OrElse(ParseInt(text), Fin(0)).v \div Milli])

SetResponsibilities(index, text) ==
  MutateMember(index,
               [heap[members[index]] EXCEPT
                  !.points.responsibilities =
                     OrElse(ParseInt(text), Fin(0)).v \div Milli])

SetMultiplier(index, text) ==
  MutateMember(index,
               [heap[members[index]] EXCEPT
                  !.multiplier = OrElse(ParseFloat(text), Fin(Milli)).v])

SetNotes(index, text) ==
  MutateMember(index, [heap[members[index]] EXCEPT !.notes = text])

\* setMembers(members.filter((_, i) => i !== index))
RemoveMember(index) ==
  /\ Step("member", index)
  /\ members' = RemoveAt(members, index)
  /\ membersArr' = 0
  /\ heap' = Collect(heap, MemberRefs(members', savedScenarios))
  /\ optionPool' = optionPool
  /\ Render(TRUE, heap, members', optionPool, chartData, diluted)
  /\ UNCHANGED <<savedScenarios, form, savedAt>>

\* setMembers([...members, {role: `Team Member ${members.length + 1}`, ...}])
AddMember ==
  /\ Len(members) < MaxMembers
  /\ Step("member", 0)
  /\ LET ref == FreshRef(heap, Refs)
         new == [role |-> TeamMemberRole(Len(members) + 1), name |-> "",
                 points |-> [commitment |-> 0, expertise |-> 0, risk |-> 0,
                             responsibilities |-> 0],
                 multiplier |-> Milli, notes |-> ""]
     IN  /\ heap' = [r \in DOMAIN heap \cup {ref} |->
                       IF r = ref THEN new ELSE heap[r]]
         /\ members' = Append(members, ref)
  /\ membersArr' = 0
  /\ optionPool' = optionPool
  /\ Render(TRUE, heap', members', optionPool, chartData, diluted)
  /\ UNCHANGED <<savedScenarios, form, savedAt>>

\* setOptionPool(Number(e.target.value))
SetOptionPool(text) ==
  /\ Step("pool", 0)
  /\ optionPool' = NumberOf(text)
  /\ Render(FALSE, heap, members, optionPool', chartData, diluted)
  /\ UNCHANGED <<members, membersArr, heap, savedScenarios, form, savedAt>>

\* a funding field that applies the dilution as the value is typed: the fault
\* C15 is tested against
SetFutureFundingApplying(text) ==
  /\ Step("form", 0)
  /\ futureFunding' = NumberOf(text)
  /\ chartData' = DilutedChartData(chartData, futureFunding')
  /\ diluted' = diluted + 1
  /\ UNCHANGED <<members, membersArr, heap, optionPool, savedScenarios,
                 scenarioName, vestingSchedule, customPointsCategories,
                 catHeap, startup, savedAt>>

\* setFutureFunding(Number(e.target.value))
SetFutureFunding(text) ==
  /\ Step("form", 0)
  /\ futureFunding' = NumberOf(text)
  /\ UNCHANGED <<working, savedScenarios, scenarioName, vestingSchedule,
                 customPointsCategories, catHeap, startup, savedAt, diluted>>

\* setVestingSchedule({ ...vestingSchedule, years: Number(e.target.value) })
SetVestingYears(text) ==
  /\ Step("form", 0)
  /\ vestingSchedule' = [vestingSchedule EXCEPT !.years = NumberOf(text)]
  /\ UNCHANGED <<working, savedScenarios, scenarioName, futureFunding,
                 customPointsCategories, catHeap, startup, savedAt, diluted>>

SetVestingCliff(text) ==
  /\ Step("form", 0)
  /\ vestingSchedule' = [vestingSchedule EXCEPT !.cliff = NumberOf(text)]
  /\ UNCHANGED <<working, savedScenarios, scenarioName, futureFunding,
                 customPointsCategories, catHeap, startup, savedAt, diluted>>

SetScenarioName(text) ==
  /\ Step("form", 0)
  /\ scenarioName' = text
  /\ UNCHANGED <<working, savedScenarios, vestingSchedule, futureFunding,
                 customPointsCategories, catHeap, startup, savedAt, diluted>>

\* setStartupName, setStartupDescription, setYearOfFunding, setFundingStage,
\* setLogoUrl
SetStartup(field, text) ==
  /\ Step("form", 0)
  /\ startup' = [startup EXCEPT ![field] = text]
  /\ UNCHANGED <<working, savedScenarios, scenarioName, vestingSchedule,
                 futureFunding, customPointsCategories, catHeap, savedAt,
                 diluted>>

\* setCustomPointsCategories([...customPointsCategories, {name: '', points: 0}])
addCustomPointCategory ==
  /\ Len(customPointsCategories) < MaxCategories
  /\ Step("form", 0)
  /\ LET ref == FreshRef(catHeap, CatRefs)
     IN  /\ catHeap' = [r \in DOMAIN catHeap \cup {ref} |->
                          IF r = ref THEN [name |-> "", points |-> 0]
                          ELSE catHeap[r]]
         /\ customPointsCategories' = Append(customPointsCategories, ref)
  /\ UNCHANGED <<working, savedScenarios, scenarioName, vestingSchedule,
                 futureFunding, startup, savedAt, diluted>>

\* newCategories = [...customPointsCategories]; newCategories[index].name = v
SetCategoryName(index, text) ==
  /\ Step("form", 0)
  /\ catHeap' = [catHeap EXCEPT ![customPointsCategories[index]].name = text]
  /\ UNCHANGED <<working, savedScenarios, scenarioName, vestingSchedule,
                 futureFunding, customPointsCategories, startup, savedAt,
                 diluted>>

SetCategoryPoints(index, text) ==
  /\ Step("form", 0)
  /\ catHeap' = [catHeap EXCEPT ![customPointsCategories[index]].points =
                   OrElse(ParseInt(text), Fin(0)).v \div Milli]
  /\ UNCHANGED <<working, savedScenarios, scenarioName, vestingSchedule,
                 futureFunding, customPointsCategories, startup, savedAt,
                 diluted>>

\* a dilution that assigns item.value in place of mapping to new items, and so
\* writes into the items a saved scenario's chartData shares with the display
\* ([...chartData] copies the array, not its items): the fault C9 is tested
\* against
calculateDilutionImpactInPlace ==
  /\ Step("dilute", 0)
  /\ chartData' = DilutedChartData(chartData, futureFunding)
  /\ savedScenarios' =
       [i \in 1..Len(savedScenarios) |->
          IF savedScenarios[i].chartData = chartData
            THEN [savedScenarios[i] EXCEPT !.chartData = chartData']
            ELSE savedScenarios[i]]
  /\ diluted' = diluted + 1
  /\ UNCHANGED <<members, membersArr, heap, optionPool, form, savedAt>>

\* setChartData(chartData.map(item => ({...item, value: ...})))
calculateDilutionImpact ==
  /\ Step("dilute", 0)
  /\ chartData' = DilutedChartData(chartData, futureFunding)
  /\ diluted' = diluted + 1
  /\ UNCHANGED <<members, membersArr, heap, optionPool, savedScenarios, form,
                 savedAt>>

\* the new scenario: members: [...members] and chartData: [...chartData] are
\* new arrays of the same objects; vestingSchedule and customPointsCategories
\* are the state's own objects.  date (the clock's reading) is not modelled:
\* nothing reads it.
NewScenario ==
  [name                   |-> scenarioName,
   members                |-> members,
   optionPool             |-> optionPool,
   vestingSchedule        |-> vestingSchedule,
   customPointsCategories |-> customPointsCategories,
   futureFunding          |-> futureFunding,
   chartData              |-> chartData]

\* a save that replaces the stored scenario of the same name, when there is
\* one, and appends otherwise: the fault C13 is tested against
saveScenarioByName ==
  /\ Len(savedScenarios) < MaxScenarios
  /\ Step("save", 0)
  /\ LET same == {i \in 1..Len(savedScenarios) :
                    savedScenarios[i].name = scenarioName}
         entry == [value |-> ValueOf(NewScenario, heap, catHeap),
                   diluted |-> diluted]
     IN  IF same = {}
           THEN /\ savedScenarios' = Append(savedScenarios, NewScenario)
                /\ savedAt' = Append(savedAt, entry)
           ELSE /\ savedScenarios' =
                     [i \in 1..Len(savedScenarios) |->
                        IF i \in same THEN NewScenario ELSE savedScenarios[i]]
                /\ savedAt' = [i \in 1..Len(savedAt) |->
                                 IF i \in same THEN entry ELSE savedAt[i]]
  /\ UNCHANGED <<working, form, diluted>>

\* setSavedScenarios([...savedScenarios, newScenario])
saveScenario ==
  /\ Len(savedScenarios) < MaxScenarios
  /\ Step("save", 0)
  /\ savedScenarios' = Append(savedScenarios, NewScenario)
  /\ savedAt' = Append(savedAt, [value   |-> ValueOf(NewScenario, heap, catHeap),
                                 diluted |-> diluted])
  /\ UNCHANGED <<working, form, diluted>>

\* the seven setters of loadScenario, then the render: members becomes the
\* scenario's own array
loadScenario(index) ==
  LET scenario == savedScenarios[index]
  IN  /\ Step("load", index)
      /\ members' = scenario.members
      /\ membersArr' = index
      /\ optionPool' = scenario.optionPool
      /\ vestingSchedule' = scenario.vestingSchedule
      /\ customPointsCategories' = scenario.customPointsCategories
      /\ futureFunding' = scenario.futureFunding
      /\ scenarioName' = scenario.name
      /\ Render(membersArr # index, heap, scenario.members, scenario.optionPool,
                scenario.chartData, savedAt[index].diluted)
      /\ heap' = Collect(heap, MemberRefs(members', savedScenarios))
      /\ catHeap' = Collect(catHeap,
                            CategoryRefs(customPointsCategories', savedScenarios))
      /\ UNCHANGED <<savedScenarios, startup, savedAt>>

\* setSavedScenarios(savedScenarios.filter((_, i) => i !== index))
DeleteScenario(index) ==
  /\ Step("delete", index)
  /\ savedScenarios' = RemoveAt(savedScenarios, index)
  /\ savedAt' = RemoveAt(savedAt, index)
  /\ membersArr' = IF membersArr = index THEN 0
                   ELSE IF membersArr > index THEN membersArr - 1
                   ELSE membersArr
  /\ heap' = Collect(heap, MemberRefs(members, savedScenarios'))
  /\ catHeap' = Collect(catHeap,
                        CategoryRefs(customPointsCategories, savedScenarios'))
  /\ UNCHANGED <<members, optionPool, chartData, scenarioName, vestingSchedule,
                 customPointsCategories, futureFunding, startup, diluted>>

StartupFields ==
  {"startupName", "startupDescription", "yearOfFunding", "fundingStage",
   "logoUrl"}

Next ==
  \/ \E index \in 1..Len(members), text \in RoleTexts : SetRole(index, text)
  \/ \E index \in 1..Len(members), text \in NameTexts : SetName(index, text)
  \/ \E index \in 1..Len(members), text \in PointTexts : SetCommitment(index, text)
  \/ \E index \in 1..Len(members), text \in PointTexts : SetExpertise(index, text)
  \/ \E index \in 1..Len(members), text \in PointTexts : SetRisk(index, text)
  \/ \E index \in 1..Len(members), text \in PointTexts :
        SetResponsibilities(index, text)
  \/ \E index \in 1..Len(members), text \in MultiplierTexts :
        SetMultiplier(index, text)
  \/ \E index \in 1..Len(members), text \in NotesTexts : SetNotes(index, text)
  \/ \E index \in 1..Len(members) : RemoveMember(index)
  \/ AddMember
  \/ \E text \in PoolTexts : SetOptionPool(text)
  \/ \E text \in FundingTexts : SetFutureFunding(text)
  \/ \E text \in VestingTexts : SetVestingYears(text)
  \/ \E text \in VestingTexts : SetVestingCliff(text)
  \/ \E text \in ScenarioNames : SetScenarioName(text)
  \/ \E field \in StartupFields, text \in StartupTexts : SetStartup(field, text)
  \/ addCustomPointCategory
  \/ \E index \in 1..Len(customPointsCategories), text \in CategoryNames :
        SetCategoryName(index, text)
  \/ \E index \in 1..Len(customPointsCategories), text \in CategoryPointTexts :
        SetCategoryPoints(index, text)
  \/ calculateDilutionImpact
  \/ saveScenario
  \/ \E index \in 1..Len(savedScenarios) : loadScenario(index)
  \/ \E index \in 1..Len(savedScenarios) : DeleteScenario(index)

Spec == Init /\ [][Next]_vars

(***************************************************************************)
(* The calculations on a wider range of inputs.  CalcInit is the component *)
(* with any member list of CalcProfiles and any pool of CalcPoolTexts in   *)
(* place and the chart calculateEquity gives for them: the state after the *)
(* edits that enter those values, each of which ends with the effect's    *)
(* calculateEquity.  CalcNext runs the handlers that touch the chart.      *)
(***************************************************************************)
MaxCalcMembers == 2

MaxCalcSteps == 2

\* points (commitment, expertise, risk, responsibilities) and multiplier
CalcProfiles ==
  <<[points |-> <<25, 20, 10, 8>>, multiplier |-> Milli],
    [points |-> <<7, 0, 0, 0>>,    multiplier |-> Milli],
    [points |-> <<30, 25, 10, 8>>, multiplier |-> Milli],
    [points |-> <<0, 0, 0, 0>>,    multiplier |-> Milli],
    [points |-> <<30, 25, 15, 10>>, multiplier |-> 800]>>

CalcPoolTexts ==
  {Text(0), NegZeroText, Text(10 * Milli), Text(33333), Text(100 * Milli)}

CalcFundingTexts == {Text(0), Text(25 * Milli), Text(100 * Milli)}

CalcRole(i) == IF i = 1 THEN "CEO" ELSE IF i = 2 THEN "CTO" ELSE TeamMemberRole(i)

CalcMember(i, profile) ==
  [role |-> CalcRole(i), name |-> "",
   points |-> [commitment |-> profile.points[1], expertise |-> profile.points[2],
               risk |-> profile.points[3], responsibilities |-> profile.points[4]],
   multiplier |-> profile.multiplier, notes |-> ""]

CalcInit ==
  \E n \in 0..MaxCalcMembers :
    \E choice \in [1..n -> 1..Len(CalcProfiles)], text \in CalcPoolTexts :
      LET ms == [i \in 1..n |-> CalcMember(i, CalcProfiles[choice[i]])]
      IN  /\ members = [i \in 1..n |-> i]
          /\ membersArr = 0
          /\ heap = ms
          /\ optionPool = NumberOf(text)
          /\ chartData = NewChartData(ms, NumberOf(text))
          /\ savedScenarios = <<>>
          /\ scenarioName = "Default Scenario"
          /\ vestingSchedule = [years |-> Fin(4 * Milli), cliff |-> Fin(1 * Milli)]
          /\ customPointsCategories = <<>>
          /\ catHeap = <<>>
          /\ futureFunding = Fin(0)
          /\ startup = [startupName |-> "", startupDescription |-> "",
                        yearOfFunding |-> "", fundingStage |-> "", logoUrl |-> ""]
          /\ savedAt = <<>>
          /\ diluted = 0
          /\ lastOp = NoOp
          /\ steps = 0

CalcNext ==
  \/ \E text \in CalcPoolTexts : steps < MaxCalcSteps /\ SetOptionPool(text)
  \/ \E text \in CalcFundingTexts : steps < MaxCalcSteps /\ SetFutureFunding(text)
  \/ steps < MaxCalcSteps /\ calculateDilutionImpact

CalcSpec == CalcInit /\ [][CalcNext]_vars

(***************************************************************************)
(* The scenario store on its own.  StoreInit is the component after the    *)
(* initial working set was saved under a sequence of names, the name field *)
(* edited before each save: any store of up to MaxScenarios scenarios with *)
(* names of StoreNames.  StoreNext runs the handlers of the store and the  *)
(* scenario-name field.                                                    *)
(***************************************************************************)
MaxStoreSteps == 2

StoreNames == {"Plan A", "Plan B", "Plan C"}

\* the scenario saveScenario stores for the initial working set under a name
StoreScenario(name) ==
  [name                   |-> name,
   members                |-> <<1, 2>>,
   optionPool             |-> Fin(10 * Milli),
   vestingSchedule        |-> [years |-> Fin(4 * Milli), cliff |-> Fin(1 * Milli)],
   customPointsCategories |-> <<>>,
   futureFunding          |-> Fin(0),
   chartData              |-> NewChartData(InitialMembers, Fin(10 * Milli))]

StoreInit ==
  \E n \in 0..MaxScenarios :
    \E names \in [1..n -> StoreNames] :
      /\ members = <<1, 2>>
      /\ membersArr = 0
      /\ heap = InitialMembers
      /\ optionPool = Fin(10 * Milli)
      /\ chartData = NewChartData(InitialMembers, Fin(10 * Milli))
      /\ savedScenarios = [i \in 1..n |-> StoreScenario(names[i])]
      /\ scenarioName = IF n = 0 THEN "Default Scenario" ELSE names[n]
      /\ vestingSchedule = [years |-> Fin(4 * Milli), cliff |-> Fin(1 * Milli)]
      /\ customPointsCategories = <<>>
      /\ catHeap = <<>>
      /\ futureFunding = Fin(0)
      /\ startup = [startupName |-> "", startupDescription |-> "",
                    yearOfFunding |-> "", fundingStage |-> "", logoUrl |-> ""]
      /\ savedAt = [i \in 1..n |->
                      [value   |-> ValueOf(StoreScenario(names[i]),
                                           InitialMembers, <<>>),
                       diluted |-> 0]]
      /\ diluted = 0
      /\ lastOp = NoOp
      /\ steps = 0

StoreNext ==
  \/ \E text \in StoreNames : steps < MaxStoreSteps /\ SetScenarioName(text)
  \/ steps < MaxStoreSteps /\ saveScenario
  \/ \E index \in 1..Len(savedScenarios) :
        steps < MaxStoreSteps /\ loadScenario(index)
  \/ \E index \in 1..Len(savedScenarios) :
        steps < MaxStoreSteps /\ DeleteScenario(index)

StoreSpec == StoreInit /\ [][StoreNext]_vars

(***************************************************************************)
(* The properties of the specification, checked against the model.         *)
(***************************************************************************)
\* the scenario loadScenario has just installed, as it was when it was saved
LoadedSnapshot == savedAt[lastOp.index].value

\* C1: scenario round-trip.  Once loadScenario(s) has completed, the working
\* set holds the member list (every field of every member), the optionPool
\* and the chartData that were active when s was saved, whatever edits were
\* made between the save and the load.
C1_RoundTrip ==
  lastOp.kind = "load" =>
    /\ DerefIn(heap, members) = LoadedSnapshot.members
    /\ optionPool = LoadedSnapshot.optionPool
    /\ chartData = LoadedSnapshot.chartData

\* C2: a saved scenario is never mutated.  In every reachable state each
\* scenario of savedScenarios has the members (all fields), categories,
\* optionPool, vestingSchedule, futureFunding and chartData it had when it
\* was saved.
C2_SavedScenarioImmutable ==
  \A i \in 1..Len(savedScenarios) :
    ValueOf(savedScenarios[i], heap, catHeap) = savedAt[i].value

\* score(m), exactly, in thousandths: the sum of the four points times the
\* multiplier
Score(member) ==
  (member.points.commitment + member.points.expertise + member.points.risk
   + member.points.responsibilities) * member.multiplier

RECURSIVE TotalScoreFrom(_, _)
TotalScoreFrom(ms, i) ==
  IF i > Len(ms) THEN 0 ELSE Score(ms[i]) + TotalScoreFrom(ms, i + 1)

\* totalScore of the working set's members, exactly, in thousandths
TotalScore == TotalScoreFrom(DerefIn(heap, members), 1)

\* the sum of the chart's values, exactly, in thousandths
RECURSIVE ChartSumFrom(_, _)
ChartSumFrom(cd, i) ==
  IF i > Len(cd) THEN 0 ELSE cd[i].value.v + ChartSumFrom(cd, i + 1)

AllFinite(cd) == \A i \in 1..Len(cd) : cd[i].value.k = "fin"

Abs(n) == IF n < 0 THEN -n ELSE n

\* C3: for a non-empty member list with totalScore > 0 and 0 <= optionPool
\* <= 100, the values of the chart calculateEquity produced (the n member
\* shares and the option-pool entry) sum to 100 within 0.01 * (n + 1).
C3_SumWithinTolerance ==
  (/\ diluted = 0
   /\ Len(members) >= 1
   /\ TotalScore > 0
   /\ 0 <= optionPool.v /\ optionPool.v <= 100 * Milli)
  => /\ AllFinite(chartData)
     /\ Abs(ChartSumFrom(chartData, 1) - 100 * Milli)
          <= (Milli \div 100) * (Len(members) + 1)

\* C3's case: a pool edit has made calculateEquity run on two scoring members,
\* and the rounded shares and the pool do not add up to 100 exactly
C3_Witness ==
  /\ lastOp.kind = "pool"
  /\ diluted = 0
  /\ Len(members) = 2
  /\ \A i \in 1..2 : Score(heap[members[i]]) > 0
  /\ 0 < optionPool.v /\ optionPool.v < 100 * Milli
  /\ AllFinite(chartData)
  /\ ChartSumFrom(chartData, 1) # 100 * Milli

\* C4: degenerate allocation.  With a non-empty member list and totalScore =
\* 0, calculateEquity gives every member entry the value 0, and no reachable
\* state has a NaN in the chart.
C4_DegenerateAllocation ==
  /\ \A i \in 1..Len(chartData) : chartData[i].value.k # "nan"
  /\ (diluted = 0 /\ Len(members) >= 1 /\ TotalScore = 0
      /\ Len(chartData) = Len(members) + 1)
     => \A i \in 1..Len(members) : chartData[i].value = Fin(0)

\* C5: after loadScenario(s) the chart on display is s.chartData, the frozen
\* result saved with the scenario (a diluted one included): loading does not
\* make calculateEquity run and replace it.
C5_LoadDisplaysSaved ==
  lastOp.kind = "load" => chartData = savedScenarios[lastOp.index].chartData

\* C6: the chart calculateEquity produced for n members has exactly n + 1
\* entries; entry i is named by the role of member i, in input order, and the
\* last entry is the option pool's, with optionPool passed through exactly;
\* for an empty member list the chart is that single entry.
C6_EntriesInOrder ==
  diluted = 0 =>
    /\ Len(chartData) = Len(members) + 1
    /\ \A i \in 1..Len(members) : chartData[i].name = heap[members[i]].role
    /\ chartData[Len(members) + 1]
         = [name |-> "Option Pool", value |-> optionPool]
    /\ Len(members) = 0 =>
         chartData = <<[name |-> "Option Pool", value |-> optionPool]>>

\* C6's case: a pool edit has made calculateEquity run on two members, with a
\* pool that is no whole number
C6_Witness ==
  /\ lastOp.kind = "pool"
  /\ diluted = 0
  /\ Len(members) = 2
  /\ heap[members[1]].role # heap[members[2]].role
  /\ optionPool.v % Milli # 0

\* (score / totalScore) * (100 - pool) rounded half-up to two decimals, in
\* thousandths, by exact integer arithmetic: with the share's hundredths
\* h = score * (100000 - pool) / (10 * totalScore), floor(h + 1/2)
HalfUpShare(score, totalScore, pool) ==
  BigToInt(BigDiv(BigAdd(BigMul(BigFromInt(2 * score),
                                BigFromInt(100 * Milli - pool)),
                         BigFromInt(10 * totalScore)),
                  BigFromInt(20 * totalScore)).q) * (Milli \div 100)

\* C7: for a member list with totalScore > 0, each member's share in the
\* chart calculateEquity produced is (score / totalScore) * (100 - optionPool)
\* rounded half-up to two decimals.
C7_HalfUpShares ==
  (/\ diluted = 0
   /\ TotalScore > 0
   /\ 0 <= optionPool.v /\ optionPool.v <= 100 * Milli
   /\ Len(chartData) = Len(members) + 1)
  => \A i \in 1..Len(members) :
       chartData[i].value =
         Fin(HalfUpShare(Score(heap[members[i]]), TotalScore, optionPool.v))

\* whether w is v * 100 / (100 + funding) rounded to two decimals, that is,
\* a hundredth within 0.005 of it (all three in thousandths, v and w of one
\* sign): |w * (100000 + funding) - v * 100000| <= 5 * (100000 + funding)
IsDilutedValue(v, w, funding) ==
  LET Within(a, b) ==
        BigCmp(IF BigCmp(a, b) >= 0 THEN BigSub(a, b) ELSE BigSub(b, a),
               BigFromInt(5 * (100 * Milli + funding))) <= 0
  IN  /\ w % (Milli \div 100) = 0
      /\ (v >= 0 /\ w >= 0) \/ (v <= 0 /\ w <= 0)
      /\ Within(BigMul(BigFromInt(Abs(w)), BigFromInt(100 * Milli + funding)),
                BigMul(BigFromInt(Abs(v)), BigFromInt(100 * Milli)))

\* C8: calculateDilutionImpact replaces every entry's value in the chart, the
\* option pool's included, by value * 100 / (100 + futureFunding) rounded to
\* two decimals, and keeps the entries' names, order and count.
C8_DilutionValues ==
  [][lastOp'.kind = "dilute" =>
       /\ Len(chartData') = Len(chartData)
       /\ \A i \in 1..Len(chartData) :
            /\ chartData'[i].name = chartData[i].name
            /\ chartData'[i].value.k = chartData[i].value.k
            /\ chartData[i].value.k = "fin" =>
                 IsDilutedValue(chartData[i].value.v, chartData'[i].value.v,
                                futureFunding.v)]_vars

\* C8's case: the chart [CEO 45, CTO 45, Option Pool 10] diluted with
\* futureFunding 25 is [CEO 36, CTO 36, Option Pool 8]
C8_Witness ==
  /\ lastOp.kind = "dilute"
  /\ diluted = 1
  /\ futureFunding = Fin(25 * Milli)
  /\ optionPool = Fin(10 * Milli)
  /\ chartData = <<[name |-> "CEO", value |-> Fin(36 * Milli)],
                   [name |-> "CTO", value |-> Fin(36 * Milli)],
                   [name |-> "Option Pool", value |-> Fin(8 * Milli)]>>

\* C9: calculateDilutionImpact changes only the chart: the members (all
\* fields), optionPool, futureFunding and every saved scenario, its chartData
\* included, are as they were.
C9_DilutionFrame ==
  [][lastOp'.kind = "dilute" =>
       /\ DerefIn(heap', members') = DerefIn(heap, members)
       /\ optionPool' = optionPool
       /\ futureFunding' = futureFunding
       /\ Len(savedScenarios') = Len(savedScenarios)
       /\ \A i \in 1..Len(savedScenarios) :
            ValueOf(savedScenarios'[i], heap', catHeap')
              = ValueOf(savedScenarios[i], heap, catHeap)]_vars

\* C9's case: a dilution with a funding above 0 has changed the chart while a
\* scenario saved with that chart exists
C9_Witness ==
  /\ lastOp.kind = "dilute"
  /\ futureFunding.v > 0
  /\ Len(savedScenarios) >= 1
  /\ chartData # savedScenarios[1].chartData
  /\ savedScenarios[1].futureFunding = futureFunding

\* C10: dilution does not survive recomputation.  When the chart on display
\* is a diluted one, an edit of the member list, or one that changes
\* optionPool, leaves the chart calculateEquity gives for the new members and
\* pool, with no dilution factor in it.
C10_EditRecomputes ==
  [][(/\ diluted > 0
      /\ \/ lastOp'.kind = "member"
         \/ (lastOp'.kind = "pool" /\ optionPool' # optionPool)) =>
       /\ chartData' = NewChartData(DerefIn(heap', members'), optionPool')
       /\ diluted' = 0]_vars

\* C10's case: an edit of the members or the pool came upon a diluted chart
\* that differed from the undiluted one, and the chart is now calculateEquity's
C10_Witness ==
  /\ lastOp.kind \in {"member", "pool"}
  /\ lastOp.overDiluted
  /\ futureFunding.v > 0
  /\ diluted = 0
  /\ chartData = NewChartData(DerefIn(heap, members), optionPool)
  /\ chartData # DilutedChartData(chartData, futureFunding)

\* C11: dilution with futureFunding = 0 is the identity.  A
\* calculateDilutionImpact run while futureFunding is 0 leaves every entry of
\* the chart with the value it had, the option pool's entry included when
\* its value has more than two decimals.
C11_ZeroFundingIdentity ==
  [][(lastOp'.kind = "dilute" /\ futureFunding.v = 0) =>
       chartData' = chartData]_vars

\* C12: dilution is not cumulative.  A calculateDilutionImpact that finds a
\* chart already diluted leaves one dilution, by the current futureFunding, of
\* the chart calculateEquity gives for the members and the pool.
C12_DilutionNotCumulative ==
  [][(lastOp'.kind = "dilute" /\ diluted >= 1) =>
       chartData' = DilutedChartData(
                      NewChartData(DerefIn(heap, members), optionPool),
                      futureFunding)]_vars

\* C13: saveScenario always succeeds and appends.  Whenever the store has
\* room under the model's bound saveScenario can run, and a saveScenario
\* leaves every scenario the store held in its place, unchanged, followed by
\* one new scenario that holds the working set and the scenario name, also
\* when a stored scenario already has that name.
C13_SaveAppends ==
  /\ [](Len(savedScenarios) < MaxScenarios => ENABLED saveScenario)
  /\ [][lastOp'.kind = "save" =>
          /\ Len(savedScenarios') = Len(savedScenarios) + 1
          /\ \A i \in 1..Len(savedScenarios) :
               /\ savedScenarios'[i] = savedScenarios[i]
               /\ ValueOf(savedScenarios'[i], heap', catHeap')
                    = ValueOf(savedScenarios[i], heap, catHeap)
          /\ ValueOf(savedScenarios'[Len(savedScenarios')], heap', catHeap')
               = [name                   |-> scenarioName,
                  members                |-> DerefIn(heap, members),
                  optionPool             |-> optionPool,
                  vestingSchedule        |-> vestingSchedule,
                  customPointsCategories |->
                    DerefIn(catHeap, customPointsCategories),
                  futureFunding          |-> futureFunding,
                  chartData              |-> chartData]]_vars

\* C13's case: a scenario was saved under the name the last scenario of a
\* store of two differently named scenarios already had
C13_Witness ==
  /\ lastOp.kind = "save"
  /\ Len(savedScenarios) = 3
  /\ savedScenarios[1].name # savedScenarios[2].name
  /\ savedScenarios[3].name = savedScenarios[2].name

\* C14: Delete removes the scenario at its index.  A Delete leaves the
\* scenarios before the index in their places and those after it one place
\* earlier, all unchanged, and the members, optionPool and chartData as they
\* were; the filter it applies keeps the whole store for an index before or
\* after the store's positions.
C14_DeleteAtIndex ==
  /\ [](\A index \in {0, Len(savedScenarios) + 1} :
          RemoveAt(savedScenarios, index) = savedScenarios)
  /\ [][lastOp'.kind = "delete" =>
          /\ Len(savedScenarios') = Len(savedScenarios) - 1
          /\ \A i \in 1..Len(savedScenarios') :
               LET old == IF i < lastOp'.index THEN i ELSE i + 1
               IN  /\ savedScenarios'[i] = savedScenarios[old]
                   /\ ValueOf(savedScenarios'[i], heap', catHeap')
                        = ValueOf(savedScenarios[old], heap, catHeap)
          /\ members' = members
          /\ DerefIn(heap', members') = DerefIn(heap, members)
          /\ optionPool' = optionPool
          /\ chartData' = chartData]_vars

\* C14's case: the middle one of three differently named scenarios was deleted
C14_Witness ==
  /\ lastOp.kind = "delete"
  /\ lastOp.index = 2
  /\ Len(savedScenarios) = 2
  /\ savedScenarios[1].name = "Plan A"
  /\ savedScenarios[2].name = "Plan C"

\* C15: the other fields do not touch the allocation.  An edit of
\* futureFunding, vestingSchedule, scenarioName, a custom category or a
\* startup field leaves the chart on display, a diluted one included, the
\* members (all fields) and optionPool as they were.
C15_FormEditFrame ==
  [][lastOp'.kind = "form" =>
       /\ chartData' = chartData
       /\ diluted' = diluted
       /\ members' = members
       /\ DerefIn(heap', members') = DerefIn(heap, members)
       /\ optionPool' = optionPool]_vars

\* C15's case: one of these edits came upon a diluted chart that differs from
\* calculateEquity's, and the diluted chart is still on display
C15_Witness ==
  /\ lastOp.kind = "form"
  /\ diluted > 0
  /\ futureFunding.v > 0
  /\ chartData # NewChartData(DerefIn(heap, members), optionPool)

====
